---- MODULE Spec2Model ----
(***************************************************************************)
(* Model of src/ffmpeg/concat.rs: the concatenation stage that joins the   *)
(* encoded video segments with one of two external tools (ffmpeg's concat  *)
(* demuxer, or mkvmerge driven by an options file).                        *)
(*                                                                         *)
(* Text (paths, file contents, arguments) is a sequence of one-character   *)
(* strings, so that formatting and parsing are computed and not assumed.   *)
(* The model is of the non-Windows build (cfg(not(windows)) fix_path); the *)
(* Windows fix_path is modelled as a pure function beside it.              *)
(*                                                                         *)
(* Specifications: Spec (one invocation, any arguments), SpecLive (Spec    *)
(* with progress), SpecConcurrent (two muxer invocations at once),         *)
(* SpecBuilder and SpecFixPath (direct calls of the two pure functions).   *)
(***************************************************************************)
EXTENDS Integers, Sequences, FiniteSets, TLC

\* ------------------------------------------------------------------ bounds

\* Longest segment list a caller passes, and largest expected_segments.
MaxSegs == 2

\* The invocations that can exist; Spec runs one, the others stay idle.
Inv == {1, 2}

\* ------------------------------------------------------------------- text

\* A file of the filesystem: absent, or present with a content.
NoFile == [exists |-> FALSE, content |-> <<>>]
File(content) == [exists |-> TRUE, content |-> content]

DigitChars == <<"0", "1", "2", "3", "4", "5", "6", "7", "8", "9">>

RECURSIVE Dec(_)
\* Display of a usize ({i}, {}): decimal, no padding.
Dec(n) == IF n < 10 THEN <<DigitChars[n + 1]>>
          ELSE Dec(n \div 10) \o <<DigitChars[(n % 10) + 1]>>

RECURSIVE Flatten(_)
\* Iterator::collect::<String>() over string pieces: concatenation in order.
Flatten(pieces) == IF pieces = <<>> THEN <<>>
                   ELSE Head(pieces) \o Flatten(Tail(pieces))

RECURSIVE EscapeDebug(_)
\* The body of <str as Debug>::fmt ({output:?}): backslash-escapes of the
\* quote, the backslash and the line feed; other characters as they are.
EscapeDebug(s) ==
    IF s = <<>> THEN <<>>
    ELSE LET c == Head(s)
             e == IF c = "\"" THEN <<"\\", "\"">>
                  ELSE IF c = "\\" THEN <<"\\", "\\">>
                  ELSE IF c = "\n" THEN <<"\\", "n">>
                  ELSE <<c>>
         IN  e \o EscapeDebug(Tail(s))

\* {s:?} of a str: the escaped body between double quotes.
DebugStr(s) == <<"\"">> \o EscapeDebug(s) \o <<"\"">>

IsPrefix(p, s) == Len(p) <= Len(s) /\ SubSeq(s, 1, Len(p)) = p

\* str::strip_prefix: Some(rest) as <<rest>>, None as <<>>.
strip_prefix(s, p) == IF IsPrefix(p, s) THEN <<SubSeq(s, Len(p) + 1, Len(s))>>
                      ELSE <<>>

\* ------------------------------------------------------------ environment

\* The process's current working directory, and the caller's arguments that
\* the model keeps fixed.
Cwd == <<"/", "w">>
original_input == <<"i", "n", ".", "m", "k", "v">>
output_file == <<"o", "u", "t", ".", "m", "k", "v">>

\* temp_dir of invocation i: /t1, /t2 (each job owns its own).
temp_dir(i) == <<"/", "t">> \o Dec(i)

\* Path::join / PathBuf::push of a relative component.
PathJoin(dir, name) == dir \o <<"/">> \o name

\* PathAbs::new on the paths of the model (no "." or ".." components): an
\* absolute path as it is, a relative one under the working directory.
PathAbs(p) == IF p # <<>> /\ p[1] = "/" THEN p ELSE PathJoin(Cwd, p)

UNC_PREFIX == <<"\\", "\\", "?", "\\">>

\* fix_path, cfg(windows), putting the leading backslash of the UNC form in
\* front of the other form too.
fix_path_windows_slashed(p) ==
    LET r == strip_prefix(p, UNC_PREFIX)
    IN  IF r # <<>>
        THEN LET path == r[1]
                 r2 == strip_prefix(path, <<"U", "N", "C">>)
             IN  IF r2 # <<>> THEN <<"\\">> \o r2[1] ELSE <<"\\">> \o path
        ELSE p

\* fix_path, cfg(windows).
fix_path_windows(p) ==
    LET r == strip_prefix(p, UNC_PREFIX)
    IN  IF r # <<>>
        THEN LET path == r[1]
                 r2 == strip_prefix(path, <<"U", "N", "C">>)
             IN  IF r2 # <<>> THEN <<"\\">> \o r2[1] ELSE path
        ELSE p

\* fix_path, cfg(not(windows)): the display form.
fix_path(p) == p

\* -------------------------------------------------------------- builders

RECURSIVE ChunkEntries(_, _, _)
\* The loop `for i in 0..num` of mkvmerge_options_json, from index i on:
\* one `, "encoded_chunk_{i}.{ext}"` per index, in increasing order.
ChunkEntries(i, num, ext) ==
    IF i >= num THEN <<>>
    ELSE <<",", " ", "\"", "e", "n", "c", "o", "d", "e", "d", "_",
           "c", "h", "u", "n", "k", "_">> \o Dec(i) \o <<".">> \o ext
         \o <<"\"">> \o ChunkEntries(i + 1, num, ext)

\* mkvmerge_options_json pushing the audio path after the group-open token.
mkvmerge_options_json_audio_in_group(num, ext, output, audio) ==
    <<"[", "\"", "-", "o", "\"", ",", " ">> \o DebugStr(output)
    \o <<",", " ", "\"", "[", "\"">>
    \o (IF audio # <<>> THEN <<",", " ">> \o DebugStr(audio[1]) ELSE <<>>)
    \o ChunkEntries(0, num, ext)
    \o <<",", "\"", "]", "\"", "]">>

\* mkvmerge_options_json(num, ext, output, audio); audio is <<>> (None) or
\* <<text>> (Some).
mkvmerge_options_json(num, ext, output, audio) ==
    <<"[", "\"", "-", "o", "\"", ",", " ">> \o DebugStr(output)
    \o (IF audio # <<>> THEN <<",", " ">> \o DebugStr(audio[1]) ELSE <<>>)
    \o <<",", " ", "\"", "[", "\"">>
    \o ChunkEntries(0, num, ext)
    \o <<",", "\"", "]", "\"", "]">>

\* One line of the file-list: format!("file '{}'\n", path).
FileListLine(path) == <<"f", "i", "l", "e", " ", "'">> \o path \o <<"'", "\n">>

\* file_list_content: the lines of the segments, in iteration order.
file_list_content(paths) ==
    Flatten([k \in 1..Len(paths) |-> FileListLine(paths[k])])

temp_file_list == <<"f", "i", "l", "e", "_", "l", "i", "s", "t", ".", "t", "x", "t">>

\* The argument vector of ffmpeg_mux, "-hide_banner" first.
ffmpeg_args(list, input, output) ==
    << <<"-", "h", "i", "d", "e", "_", "b", "a", "n", "n", "e", "r">>,
       <<"-", "f">>, <<"c", "o", "n", "c", "a", "t">>,
       <<"-", "s", "a", "f", "e">>, <<"0">>,
       <<"-", "i">>, list,
       <<"-", "i">>, input,
       <<"-", "m", "a", "p">>, <<"0", ":", "v">>,
       <<"-", "m", "a", "p">>, <<"1">>,
       <<"-", "c">>, <<"c", "o", "p", "y">>,
       output >>

\* The single argument of the mkvmerge command.
mkvmerge_args == << <<"@", ".", ".", "/", "o", "p", "t", "i", "o", "n", "s",
                      ".", "j", "s", "o", "n">> >>

\* encode_dir and options_path of mkvmerge.
encode_dir(i) == PathJoin(temp_dir(i), <<"e", "n", "c", "o", "d", "e", "d">>)
options_path(i) ==
    PathJoin(temp_dir(i), <<"o", "p", "t", "i", "o", "n", "s", ".", "j", "s", "o", "n">>)
audio_path(i) ==
    PathJoin(temp_dir(i), <<"a", "u", "d", "i", "o", ".", "m", "k", "v">>)

\* The extension the dispatcher passes to mkvmerge: "mkv".
encoder_extension == <<"m", "k", "v">>

\* ---------------------------------------------------------------- readers
\* How the external tools read what the core hands them.

\* The members of a finite set of numbers, in increasing order.
Ascending(S) ==
    [m \in 1..Cardinality(S) |->
        CHOOSE x \in S : Cardinality({y \in S : y < x}) = m - 1]

\* The lines of a text, each without its line feed; characters after the
\* last line feed are a line of their own.
SplitLines(s) ==
    LET nl == Ascending({k \in 1..Len(s) : s[k] = "\n"})
        n == Len(nl)
        start(m) == IF m = 1 THEN 1 ELSE nl[m - 1] + 1
        whole == [m \in 1..n |-> SubSeq(s, start(m), nl[m] - 1)]
        rest == SubSeq(s, start(n + 1), Len(s))
    IN  IF rest = <<>> THEN whole ELSE Append(whole, rest)

\* The path a concat-demuxer line `file '<path>'` names; <<"?">> \o line for
\* a line of another shape.
LinePath(line) ==
    LET pre == <<"f", "i", "l", "e", " ", "'">>
    IN  IF IsPrefix(pre, line) /\ Len(line) > Len(pre) /\ line[Len(line)] = "'"
        THEN SubSeq(line, Len(pre) + 1, Len(line) - 1)
        ELSE <<"?">> \o line

\* The files a file-list names, in order.
FileListPaths(text) ==
    LET lines == SplitLines(text)
    IN  [k \in 1..Len(lines) |-> LinePath(lines[k])]

\* Whether position k of s follows an odd number of backslashes, that is,
\* whether the character there is escaped.
Escaped(s, k) ==
    IF k = 1 \/ s[k - 1] # "\\" THEN FALSE
    ELSE LET b == {j \in 1..(k - 1) : s[j] # "\\"}
             last == IF b = {} THEN 0 ELSE CHOOSE j \in b : \A x \in b : x <= j
         IN  (k - 1 - last) % 2 = 1

RECURSIVE Unescape(_)
\* A JSON string body with its backslash escapes undone.
Unescape(s) ==
    IF s = <<>> THEN <<>>
    ELSE IF Head(s) = "\\" /\ Len(s) >= 2
         THEN <<IF s[2] = "n" THEN "\n" ELSE s[2]>> \o Unescape(SubSeq(s, 3, Len(s)))
         ELSE <<Head(s)>> \o Unescape(Tail(s))

\* The string elements of a flat JSON array of strings, unescaped, in
\* order: what lies between the 1st and 2nd, 3rd and 4th, ... unescaped
\* double quote.
JsonElements(text) ==
    LET q == Ascending({k \in 1..Len(text) : text[k] = "\"" /\ ~Escaped(text, k)})
    IN  [m \in 1..(Len(q) \div 2) |->
            Unescape(SubSeq(text, q[2 * m - 1] + 1, q[2 * m] - 1))]

\* Positions of the group-open and group-close tokens among the elements
\* (0 when absent).
GroupOpen(els) ==
    IF \E k \in 1..Len(els) : els[k] = <<"[">>
    THEN CHOOSE k \in 1..Len(els) :
             els[k] = <<"[">> /\ \A j \in 1..(k - 1) : els[j] # <<"[">>
    ELSE 0
GroupClose(els) == IF els # <<>> /\ els[Len(els)] = <<"]">> THEN Len(els) ELSE 0

\* The chunk entries of an options text: the elements between the tokens.
OptionChunks(text) ==
    LET els == JsonElements(text)
        o == GroupOpen(els)
        c == GroupClose(els)
    IN  IF o = 0 \/ c = 0 \/ c < o THEN <<>> ELSE SubSeq(els, o + 1, c - 1)

\* ------------------------------------------------------------------ state

VARIABLES
    procs,              \* the invocations that run
    segment_paths,      \* per invocation: the caller's segment list
    expected_segments,  \* per invocation: the caller's expected count
    concat,             \* per invocation: the backend selector string
    existing,           \* the paths, among the callers' segments, that exist
    audioExists,        \* per invocation: whether <temp_dir>/audio.mkv exists
    fileList,           \* the file <cwd>/file_list.txt
    optionsFile,        \* per invocation: the file <temp_dir>/options.json
    pc,                 \* per invocation: the statement it is at
    idx,                \* per invocation: position of the `for path` loop
    audio_file,         \* per invocation: mkvmerge's audio_file (Option)
    status,             \* per invocation: the backend's Result
    result,             \* per invocation: what concatenate returned
    child,              \* per invocation: the external process it spawned
    spawned,            \* per invocation: every process launch, in order
    fsLog,              \* per invocation: its filesystem operations, in order
    logged,             \* per invocation: what it wrote to the log / stderr
    arg,                \* the arguments of a direct call of a pure function
    ret                 \* what the direct calls have returned

inputs == <<procs, segment_paths, expected_segments, concat, existing, audioExists,
            arg, ret>>
files == <<fileList, optionsFile>>
vars == <<procs, segment_paths, expected_segments, concat, existing, audioExists,
          fileList, optionsFile, pc, idx, audio_file, status, result, child,
          spawned, fsLog, logged, arg, ret>>

\* The selector values callers pass: the muxer's, the remux tool's name, the
\* empty string and a case variant.
Backends == {"ffmpeg", "mkvmerge", "", "FFmpeg"}

\* <temp_dir>/encoded/encoded_chunk_{k}.mkv, where the encoder puts chunk k.
ChunkPath(i, k) ==
    PathJoin(encode_dir(i),
             <<"e", "n", "c", "o", "d", "e", "d", "_", "c", "h", "u", "n", "k", "_">>
             \o Dec(k) \o <<".">> \o encoder_extension)

\* The paths a caller of invocation i passes as segments: the encoder's
\* chunks and one file elsewhere.
SegPaths(i) == {ChunkPath(i, k) : k \in 0..(MaxSegs - 1)} \cup {<<"/", "s">> \o Dec(i)}

SeqsUpTo(S, n) == UNION {[1..k -> S] : k \in 0..n}
Range(f) == {f[k] : k \in DOMAIN f}

\* A file-list an earlier run left in the working directory.
StaleList == File(FileListLine(<<"o", "l", "d">>))

\* ---- values

Pending == [tag |-> "Pending", fmt |-> "", args |-> <<>>]
OkResult == [tag |-> "Ok", fmt |-> "", args |-> <<>>]

\* VideoEncodeError::Concatenation(format!(fmt, args...)); the arguments as
\* formatted.
Concatenation(fmt, args) == [tag |-> "Concatenation", fmt |-> fmt, args |-> args]

\* CountMismatch with the two numbers in the wrong order.
CountMismatch_swapped(expected, found) ==
    Concatenation("Mismatch in segment count. Expected: {}, Found: {}",
                  <<Dec(found), Dec(expected)>>)

CountMismatch(expected, found) ==
    Concatenation("Mismatch in segment count. Expected: {}, Found: {}",
                  <<Dec(expected), Dec(found)>>)

SegmentNotFound(path) ==
    Concatenation("Segment file not found: {:?}", <<DebugStr(path)>>)

ConcatenationFailed ==
    Concatenation("Failed to concatenate videos and copy streams", <<>>)

\* What `?` makes of a std::io::Error in concatenate: the From conversion of
\* VideoEncodeError, which keeps the I/O cause.
FromIoError(cause) == [tag |-> "Io", fmt |-> cause, args |-> <<>>]

\* A panic (assert!, unwrap) unwinding out of concatenate.
Panicked(msg) == [tag |-> "Panic", fmt |-> msg, args |-> <<>>]

NoStatus == [tag |-> "None", kind |-> "", text |-> ""]
StatusOk == [tag |-> "Ok", kind |-> "", text |-> ""]
\* Err(OutputError::kind(text)).
StatusErr(kind, text) == [tag |-> "Err", kind |-> kind, text |-> text]

NoChild == [state |-> "none", program |-> "", input |-> NoFile, code |-> 0,
            stderr |-> ""]

\* Exit statuses of a child, and what the remux tool writes to stderr when
\* it fails.
ExitCodes == {0, 1, 2}
StderrOf(code) == IF code = 0 THEN "" ELSE "bad input"

\* Proper prefixes of a content: what a failed write_all can leave behind.
PartialWrites(content) == {SubSeq(content, 1, k) : k \in 0..(Len(content) - 1)}

\* ---- Init

InitCommon ==
    /\ existing \in SUBSET (UNION {Range(segment_paths[i]) : i \in procs})
    /\ audioExists \in {f \in [Inv -> BOOLEAN] : \A i \in Inv \ procs : ~f[i]}
    /\ fileList \in {NoFile, StaleList}
    /\ optionsFile = [i \in Inv |-> NoFile]
    /\ pc = [i \in Inv |-> IF i \in procs THEN "count" ELSE "idle"]
    /\ idx = [i \in Inv |-> 1]
    /\ audio_file = [i \in Inv |-> <<>>]
    /\ status = [i \in Inv |-> NoStatus]
    /\ result = [i \in Inv |-> Pending]
    /\ child = [i \in Inv |-> NoChild]
    /\ spawned = [i \in Inv |-> <<>>]
    /\ fsLog = [i \in Inv |-> <<>>]
    /\ logged = [i \in Inv |-> <<>>]

\* One invocation, with any segments and count and a selector among sel.
InitOne(sel) ==
    /\ procs = {1}
    /\ \E sp \in SeqsUpTo(SegPaths(1), MaxSegs), e \in 0..MaxSegs, c \in sel :
          /\ segment_paths = [i \in Inv |-> IF i = 1 THEN sp ELSE <<>>]
          /\ expected_segments = [i \in Inv |-> IF i = 1 THEN e ELSE 0]
          /\ concat = [i \in Inv |-> IF i = 1 THEN c ELSE ""]
    /\ InitCommon
    /\ arg = <<>>
    /\ ret = <<>>

\* One invocation, with any arguments.
Init == InitOne(Backends)

\* ---------------------------------------------------------------- actions

FsOp(op, path) == [op |-> op, path |-> path]
Launch(program, cwd, args, seen) ==
    [program |-> program, cwd |-> cwd, args |-> args, seen |-> seen]

\* concatenate returns r.
Return(i, r) ==
    /\ result' = [result EXCEPT ![i] = r]
    /\ pc' = [pc EXCEPT ![i] = "done"]

\* Lines 149-155: the count check.
CheckCount(i) ==
    /\ pc[i] = "count"
    /\ IF Len(segment_paths[i]) # expected_segments[i]
       THEN Return(i, CountMismatch(expected_segments[i], Len(segment_paths[i])))
       ELSE /\ pc' = [pc EXCEPT ![i] = "exists"]
            /\ UNCHANGED result
    /\ UNCHANGED <<inputs, files, idx, audio_file, status, child, spawned, fsLog, logged>>

\* CheckExists walking the segments from the last to the first.
CheckExists_reversed(i) ==
    /\ pc[i] = "exists"
    /\ IF idx[i] > Len(segment_paths[i])
       THEN /\ pc' = [pc EXCEPT ![i] = "dispatch"]
            /\ UNCHANGED <<result, idx, fsLog>>
       ELSE LET path == segment_paths[i][Len(segment_paths[i]) + 1 - idx[i]]
            IN  /\ fsLog' = [fsLog EXCEPT ![i] = Append(@, FsOp("exists", path))]
                /\ IF path \notin existing
                   THEN /\ Return(i, SegmentNotFound(path))
                        /\ UNCHANGED idx
                   ELSE /\ idx' = [idx EXCEPT ![i] = @ + 1]
                        /\ UNCHANGED <<result, pc>>
    /\ UNCHANGED <<inputs, files, audio_file, status, child, spawned, logged>>

\* Lines 157-164: one iteration of `for path in segment_paths.iter()`, or the
\* end of the loop.
CheckExists(i) ==
    /\ pc[i] = "exists"
    /\ IF idx[i] > Len(segment_paths[i])
       THEN /\ pc' = [pc EXCEPT ![i] = "dispatch"]
            /\ UNCHANGED <<result, idx, fsLog>>
       ELSE LET path == segment_paths[i][idx[i]]
            IN  /\ fsLog' = [fsLog EXCEPT ![i] = Append(@, FsOp("exists", path))]
                /\ IF path \notin existing
                   THEN /\ Return(i, SegmentNotFound(path))
                        /\ UNCHANGED idx
                   ELSE /\ idx' = [idx EXCEPT ![i] = @ + 1]
                        /\ UNCHANGED <<result, pc>>
    /\ UNCHANGED <<inputs, files, audio_file, status, child, spawned, logged>>

\* Dispatch comparing the selector without regard to case.
Dispatch_caseless(i) ==
    /\ pc[i] = "dispatch"
    /\ pc' = [pc EXCEPT ![i] = IF concat[i] \in {"ffmpeg", "FFmpeg"}
                               THEN "write_list" ELSE "audio"]
    /\ UNCHANGED <<inputs, files, idx, audio_file, status, result, child, spawned,
                   fsLog, logged>>

\* Line 167: `if concat == "ffmpeg"`.
Dispatch(i) ==
    /\ pc[i] = "dispatch"
    /\ pc' = [pc EXCEPT ![i] = IF concat[i] = "ffmpeg" THEN "write_list" ELSE "audio"]
    /\ UNCHANGED <<inputs, files, idx, audio_file, status, result, child, spawned,
                   fsLog, logged>>

\* WriteFileList opening the file for append instead of truncating it.
WriteFileList_append(i) ==
    /\ pc[i] = "write_list"
    /\ LET content == file_list_content(segment_paths[i])
       IN  \/ /\ fileList' = File(fileList.content \o content)
              /\ pc' = [pc EXCEPT ![i] = "ffmpeg"]
              /\ UNCHANGED result
           \/ /\ UNCHANGED fileList
              /\ Return(i, FromIoError("create failed"))
           \/ /\ \E part \in PartialWrites(content) :
                    fileList' = File(fileList.content \o part)
              /\ Return(i, FromIoError("write failed"))
    /\ fsLog' = [fsLog EXCEPT ![i] = Append(@, FsOp("write", temp_file_list))]
    /\ UNCHANGED <<inputs, optionsFile, idx, audio_file, status, child, spawned, logged>>

\* Lines 171-175: build the file-list and std::fs::write it (create or
\* truncate, then write all); an I/O error leaves through `?`.
WriteFileList(i) ==
    /\ pc[i] = "write_list"
    /\ LET content == file_list_content(segment_paths[i])
       IN  \/ /\ fileList' = File(content)                   \* written
              /\ pc' = [pc EXCEPT ![i] = "ffmpeg"]
              /\ UNCHANGED result
           \/ /\ UNCHANGED fileList                          \* create failed
              /\ Return(i, FromIoError("create failed"))
           \/ /\ \E part \in PartialWrites(content) :        \* write failed
                    fileList' = File(part)
              /\ Return(i, FromIoError("write failed"))
    /\ fsLog' = [fsLog EXCEPT ![i] = Append(@, FsOp("write", temp_file_list))]
    /\ UNCHANGED <<inputs, optionsFile, idx, audio_file, status, child, spawned, logged>>

\* Lines 177-181, 109-134: ffmpeg_mux starts ffmpeg (Command::status spawns,
\* then waits), or fails to start it.
FfmpegLaunch(i) ==
    /\ pc[i] = "ffmpeg"
    /\ \/ /\ spawned' = [spawned EXCEPT ![i] =
                 Append(@, Launch("ffmpeg", Cwd,
                                  ffmpeg_args(temp_file_list, original_input, output_file),
                                  fileList))]
          /\ child' = [child EXCEPT ![i] = [NoChild EXCEPT !.state = "started",
                                                           !.program = "ffmpeg"]]
          /\ pc' = [pc EXCEPT ![i] = "ffmpeg_wait"]
          /\ UNCHANGED status
       \/ /\ status' = [status EXCEPT ![i] = StatusErr("Io", "spawn failed")]
          /\ pc' = [pc EXCEPT ![i] = "status"]
          /\ UNCHANGED <<spawned, child>>
    /\ UNCHANGED <<inputs, files, idx, audio_file, result, fsLog, logged>>

\* FfmpegWait inspecting the exit status, as mkvmerge's wait does.
FfmpegWait_checked(i) ==
    /\ pc[i] = "ffmpeg_wait"
    /\ child[i].state = "exited"
    /\ status' = [status EXCEPT ![i] = IF child[i].code = 0 THEN StatusOk
                                       ELSE StatusErr("Io", "ffmpeg failed")]
    /\ pc' = [pc EXCEPT ![i] = "status"]
    /\ UNCHANGED <<inputs, files, idx, audio_file, result, child, spawned, fsLog, logged>>

\* Lines 134-135: the wait of Command::status ends; the exit status is
\* dropped and ffmpeg_mux returns Ok(()).
FfmpegWait(i) ==
    /\ pc[i] = "ffmpeg_wait"
    /\ child[i].state = "exited"
    /\ status' = [status EXCEPT ![i] = StatusOk]
    /\ pc' = [pc EXCEPT ![i] = "status"]
    /\ UNCHANGED <<inputs, files, idx, audio_file, result, child, spawned, fsLog, logged>>

LogEntry(level, kind, text) == [level |-> level, kind |-> kind, text |-> text]

\* mkvmerge returns Err(OutputError::kind(text)) to the dispatcher.
MkvFail(i, kind, text) ==
    /\ status' = [status EXCEPT ![i] = StatusErr(kind, text)]
    /\ pc' = [pc EXCEPT ![i] = "status"]

\* MkvAudio passing the audio path on without the existence test.
MkvAudio_unprobed(i) ==
    /\ pc[i] = "audio"
    /\ \/ /\ audio_file' = [audio_file EXCEPT ![i] = <<fix_path(PathAbs(audio_path(i)))>>]
          /\ fsLog' = [fsLog EXCEPT ![i] = Append(@, FsOp("exists", PathAbs(audio_path(i))))]
          /\ pc' = [pc EXCEPT ![i] = "output"]
          /\ UNCHANGED status
       \/ /\ MkvFail(i, "Path", "cannot resolve audio path")
          /\ UNCHANGED <<audio_file, fsLog>>
    /\ UNCHANGED <<inputs, files, idx, result, child, spawned, logged>>

\* Lines 45-52: resolve <temp_dir>/audio.mkv and probe it.
MkvAudio(i) ==
    /\ pc[i] = "audio"
    /\ \/ /\ audio_file' = [audio_file EXCEPT ![i] =
                 IF audioExists[i] THEN <<fix_path(PathAbs(audio_path(i)))>> ELSE <<>>]
          /\ fsLog' = [fsLog EXCEPT ![i] = Append(@, FsOp("exists", PathAbs(audio_path(i))))]
          /\ pc' = [pc EXCEPT ![i] = "output"]
          /\ UNCHANGED status
       \/ /\ MkvFail(i, "Path", "cannot resolve audio path")
          /\ UNCHANGED <<audio_file, fsLog>>
    /\ UNCHANGED <<inputs, files, idx, result, child, spawned, logged>>

\* Lines 54-57: encode_dir, and the output path made absolute.
MkvOutput(i) ==
    /\ pc[i] = "output"
    /\ \/ /\ pc' = [pc EXCEPT ![i] = "assert"]
          /\ UNCHANGED status
       \/ MkvFail(i, "Path", "cannot resolve output path")
    /\ UNCHANGED <<inputs, files, idx, audio_file, result, child, spawned, fsLog, logged>>

\* MkvAssert without the assertion.
MkvAssert_absent(i) ==
    /\ pc[i] = "assert"
    /\ pc' = [pc EXCEPT ![i] = "options"]
    /\ UNCHANGED <<inputs, files, idx, audio_file, status, result, child, spawned,
                   fsLog, logged>>

\* Line 59: assert!(num_tasks != 0); num_tasks is expected_segments.
MkvAssert(i) ==
    /\ pc[i] = "assert"
    /\ IF expected_segments[i] # 0
       THEN /\ pc' = [pc EXCEPT ![i] = "options"]
            /\ UNCHANGED result
       ELSE Return(i, Panicked("assertion failed: num_tasks != 0"))
    /\ UNCHANGED <<inputs, files, idx, audio_file, status, child, spawned, fsLog, logged>>

\* MkvOptions going on to the launch after a failed write_all.
MkvOptions_unchecked(i) ==
    /\ pc[i] = "options"
    /\ LET options_json_contents ==
               mkvmerge_options_json(expected_segments[i], encoder_extension,
                                     fix_path(PathAbs(output_file)), audio_file[i])
       IN  \/ /\ optionsFile' = [optionsFile EXCEPT ![i] = File(options_json_contents)]
              /\ pc' = [pc EXCEPT ![i] = "mkvmerge"]
              /\ UNCHANGED status
           \/ /\ UNCHANGED optionsFile
              /\ MkvFail(i, "Fs", "create failed")
           \/ /\ \E part \in PartialWrites(options_json_contents) :
                    optionsFile' = [optionsFile EXCEPT ![i] = File(part)]
              /\ pc' = [pc EXCEPT ![i] = "mkvmerge"]
              /\ UNCHANGED status
    /\ fsLog' = [fsLog EXCEPT ![i] = Append(@, FsOp("create", options_path(i)))]
    /\ UNCHANGED <<inputs, fileList, idx, audio_file, result, child, spawned, logged>>

\* Lines 61-73: build the options text, File::create options.json (create
\* or truncate) and write_all the text.
MkvOptions(i) ==
    /\ pc[i] = "options"
    /\ LET options_json_contents ==
               mkvmerge_options_json(expected_segments[i], encoder_extension,
                                     fix_path(PathAbs(output_file)), audio_file[i])
       IN  \/ /\ optionsFile' = [optionsFile EXCEPT ![i] = File(options_json_contents)]
              /\ pc' = [pc EXCEPT ![i] = "mkvmerge"]
              /\ UNCHANGED status
           \/ /\ UNCHANGED optionsFile                       \* create failed
              /\ MkvFail(i, "Fs", "create failed")
           \/ /\ \E part \in PartialWrites(options_json_contents) :
                    optionsFile' = [optionsFile EXCEPT ![i] = File(part)]
              /\ MkvFail(i, "Fs", "write failed")
    /\ fsLog' = [fsLog EXCEPT ![i] = Append(@, FsOp("create", options_path(i)))]
    /\ UNCHANGED <<inputs, fileList, idx, audio_file, result, child, spawned, logged>>

\* Lines 75-79: start mkvmerge in encode_dir with "@../options.json"
\* (Command::output spawns, then waits), or fail to start it.
MkvLaunch(i) ==
    /\ pc[i] = "mkvmerge"
    /\ \/ /\ spawned' = [spawned EXCEPT ![i] =
                 Append(@, Launch("mkvmerge", encode_dir(i), mkvmerge_args, optionsFile[i]))]
          /\ child' = [child EXCEPT ![i] = [NoChild EXCEPT !.state = "started",
                                                           !.program = "mkvmerge"]]
          /\ pc' = [pc EXCEPT ![i] = "mkv_wait"]
          /\ UNCHANGED status
       \/ /\ MkvFail(i, "Io", "spawn failed")
          /\ UNCHANGED <<spawned, child>>
    /\ UNCHANGED <<inputs, files, idx, audio_file, result, fsLog, logged>>

\* MkvWait deleting options.json once mkvmerge has exited.
MkvWait_removes_options(i) ==
    /\ pc[i] = "mkv_wait"
    /\ child[i].state = "exited"
    /\ optionsFile' = [optionsFile EXCEPT ![i] = NoFile]
    /\ IF child[i].code # 0
       THEN /\ logged' = [logged EXCEPT ![i] =
                   Append(@, LogEntry("error", "mkvmerge output", child[i].stderr))]
            /\ MkvFail(i, "MkvMergeFailed", child[i].stderr)
       ELSE /\ status' = [status EXCEPT ![i] = StatusOk]
            /\ pc' = [pc EXCEPT ![i] = "status"]
            /\ UNCHANGED logged
    /\ UNCHANGED <<inputs, fileList, idx, audio_file, result, child, spawned, fsLog>>

\* MkvWait going on only when mkvmerge has exited with status zero.
MkvWait_until_success(i) ==
    /\ pc[i] = "mkv_wait"
    /\ child[i].state = "exited"
    /\ child[i].code = 0
    /\ status' = [status EXCEPT ![i] = StatusOk]
    /\ pc' = [pc EXCEPT ![i] = "status"]
    /\ UNCHANGED <<inputs, files, idx, audio_file, result, child, spawned, fsLog, logged>>

\* Lines 79-91: the wait of Command::output ends; a non-zero exit is logged
\* and becomes MkvMergeFailed(stderr).
MkvWait(i) ==
    /\ pc[i] = "mkv_wait"
    /\ child[i].state = "exited"
    /\ IF child[i].code # 0
       THEN /\ logged' = [logged EXCEPT ![i] =
                   Append(@, LogEntry("error", "mkvmerge output", child[i].stderr))]
            /\ MkvFail(i, "MkvMergeFailed", child[i].stderr)
       ELSE /\ status' = [status EXCEPT ![i] = StatusOk]
            /\ pc' = [pc EXCEPT ![i] = "status"]
            /\ UNCHANGED logged
    /\ UNCHANGED <<inputs, files, idx, audio_file, result, child, spawned, fsLog>>

\* The external process reads the artifact it was pointed at: ffmpeg the
\* file-list of its working directory, mkvmerge ../options.json.
ChildRead(i) ==
    /\ child[i].state = "started"
    /\ child' = [child EXCEPT ![i].state = "running",
                              ![i].input = IF child[i].program = "ffmpeg"
                                           THEN fileList ELSE optionsFile[i]]
    /\ UNCHANGED <<inputs, files, pc, idx, audio_file, status, result, spawned,
                   fsLog, logged>>

\* The external process exits, with any status.
ChildExit(i) ==
    /\ child[i].state \in {"started", "running"}
    /\ \E code \in ExitCodes :
          child' = [child EXCEPT ![i].state = "exited", ![i].code = code,
                                 ![i].stderr = StderrOf(code)]
    /\ UNCHANGED <<inputs, files, pc, idx, audio_file, status, result, spawned,
                   fsLog, logged>>

\* CheckStatus removing the file-list on the failure branch too.
CheckStatus_cleanup(i) ==
    /\ pc[i] = "status"
    /\ IF status[i].tag = "Err"
       THEN /\ logged' = [logged EXCEPT ![i] =
                   @ \o <<LogEntry("eprintln", status[i].kind, status[i].text),
                          LogEntry("error", "", "Failed to concatenate videos and copy streams")>>]
            /\ fileList' = NoFile
            /\ Return(i, ConcatenationFailed)
       ELSE /\ logged' = [logged EXCEPT ![i] =
                   Append(@, LogEntry("info", "", "Successfully concatenated"))]
            /\ pc' = [pc EXCEPT ![i] = "cleanup"]
            /\ UNCHANGED <<result, fileList>>
    /\ UNCHANGED <<inputs, optionsFile, idx, audio_file, status, child, spawned, fsLog>>

\* Lines 186-197: a backend error is printed, logged and replaced by the
\* fixed Concatenation error; otherwise the success is logged.
CheckStatus(i) ==
    /\ pc[i] = "status"
    /\ IF status[i].tag = "Err"
       THEN /\ logged' = [logged EXCEPT ![i] =
                   @ \o <<LogEntry("eprintln", status[i].kind, status[i].text),
                          LogEntry("error", "", "Failed to concatenate videos and copy streams")>>]
            /\ Return(i, ConcatenationFailed)
       ELSE /\ logged' = [logged EXCEPT ![i] =
                   Append(@, LogEntry("info", "", "Successfully concatenated"))]
            /\ pc' = [pc EXCEPT ![i] = "cleanup"]
            /\ UNCHANGED result
    /\ UNCHANGED <<inputs, files, idx, audio_file, status, child, spawned, fsLog>>

\* fs::remove_file: fails when there is no such file.
remove_file(f) == IF f.exists THEN [ok |-> TRUE, file |-> NoFile]
                  ELSE [ok |-> FALSE, file |-> f]

\* Lines 199-202: fs::remove_file(temp_file_list)?, then Ok(()).
Cleanup(i) ==
    /\ pc[i] = "cleanup"
    /\ LET r == remove_file(fileList)
       IN  /\ fileList' = r.file
           /\ Return(i, IF r.ok THEN OkResult ELSE FromIoError("No such file or directory"))
    /\ fsLog' = [fsLog EXCEPT ![i] = Append(@, FsOp("remove", temp_file_list))]
    /\ UNCHANGED <<inputs, optionsFile, idx, audio_file, status, child, spawned, logged>>

Next ==
    \E i \in Inv :
        \/ CheckCount(i)
        \/ CheckExists(i)
        \/ Dispatch(i)
        \/ WriteFileList(i)
        \/ FfmpegLaunch(i)
        \/ FfmpegWait(i)
        \/ MkvAudio(i)
        \/ MkvOutput(i)
        \/ MkvAssert(i)
        \/ MkvOptions(i)
        \/ MkvLaunch(i)
        \/ MkvWait(i)
        \/ ChildRead(i)
        \/ ChildExit(i)
        \/ CheckStatus(i)
        \/ Cleanup(i)

Spec == Init /\ [][Next]_vars

\* ---------------------------------------------------------------- progress

\* The statements invocation i executes itself, on the calling thread.
Step(i) ==
    \/ CheckCount(i)
    \/ CheckExists(i)
    \/ Dispatch(i)
    \/ WriteFileList(i)
    \/ FfmpegLaunch(i)
    \/ FfmpegWait(i)
    \/ MkvAudio(i)
    \/ MkvOutput(i)
    \/ MkvAssert(i)
    \/ MkvOptions(i)
    \/ MkvLaunch(i)
    \/ MkvWait(i)
    \/ CheckStatus(i)
    \/ Cleanup(i)

\* The calling thread keeps executing the synchronous code, and a process
\* that was launched exits in the end (the proviso under which the call
\* does not block for ever).
Progress == \A i \in Inv : WF_vars(Step(i)) /\ WF_vars(ChildExit(i))

\* One invocation on either backend, each under its own name.
InitLive == InitOne({"ffmpeg", "mkvmerge"})

SpecLive == InitLive /\ [][Next]_vars /\ Progress

\* ------------------------------------------------------------- concurrency
\* Two jobs of the same process call concatenate at the same time, each on
\* the muxer backend with the chunks of its own temp_dir, all there.

InitConcurrent ==
    /\ procs = {1, 2}
    /\ \E n \in [Inv -> 1..MaxSegs] :
          /\ segment_paths = [i \in Inv |-> [k \in 1..n[i] |-> ChunkPath(i, k - 1)]]
          /\ expected_segments = n
    /\ concat = [i \in Inv |-> "ffmpeg"]
    /\ InitCommon
    /\ existing = UNION {Range(segment_paths[i]) : i \in procs}
    /\ audioExists = [i \in Inv |-> FALSE]
    /\ arg = <<>>
    /\ ret = <<>>

\* The steps of the muxer backend, of either invocation, interleaved.
NextConcurrent ==
    \E i \in Inv :
        \/ CheckCount(i)
        \/ CheckExists(i)
        \/ Dispatch(i)
        \/ WriteFileList(i)
        \/ FfmpegLaunch(i)
        \/ FfmpegWait(i)
        \/ ChildRead(i)
        \/ ChildExit(i)
        \/ CheckStatus(i)
        \/ Cleanup(i)

SpecConcurrent == InitConcurrent /\ [][NextConcurrent]_vars

\* ------------------------------------------------------------ direct calls
\* The two public pure functions, called directly with arguments of the
\* caller's choosing while no invocation of concatenate runs.

invocation == <<procs, segment_paths, expected_segments, concat, existing,
                audioExists, fileList, optionsFile, pc, idx, audio_file, status,
                result, child, spawned, fsLog, logged>>

\* No invocation is running and nothing is on disk.
NoInvocation ==
    /\ procs = {}
    /\ segment_paths = [i \in Inv |-> <<>>]
    /\ expected_segments = [i \in Inv |-> 0]
    /\ concat = [i \in Inv |-> ""]
    /\ InitCommon
    /\ fileList = NoFile

\* Largest chunk count passed to mkvmerge_options_json (two-digit indices
\* from 10 on).
MaxChunks == 11

\* Extensions, output paths and audio paths passed to the builder: plain
\* ones, and ones with the characters that string formatting treats
\* specially (double quote, backslash, space).
Extensions == {<<"m", "k", "v">>, <<"i", "v", "f">>, <<"\"">>}
OutputTexts == {Cwd \o <<"/">> \o output_file,
                <<"/", "w", "/", "a", " ", "\"", "b", "\"", ".", "m", "k", "v">>,
                <<"C", ":", "\\", "o", ".", "m", "k", "v">>}
AudioTexts == {audio_path(1),
               <<"/", "t", "/", "\"", "a", "\\", ".", "m", "k", "v">>}

NotCalled == <<>>
Returns(v) == <<v>>

\* A caller about to call mkvmerge_options_json(num, ext, output, audio).
InitBuilder ==
    /\ NoInvocation
    /\ arg \in [num : 0..MaxChunks, ext : Extensions, output : OutputTexts,
                 audio : {<<>>} \cup {<<a>> : a \in AudioTexts}]
    /\ ret = [out |-> NotCalled, base |-> NotCalled]

\* The call with the arguments as given.
CallBuilder ==
    /\ ret.out = NotCalled
    /\ ret' = [ret EXCEPT !.out =
                  Returns(mkvmerge_options_json(arg.num, arg.ext, arg.output, arg.audio))]
    /\ UNCHANGED <<invocation, arg>>

\* The call with the same count, extension and output, and audio = None.
CallBuilderNoAudio ==
    /\ ret.base = NotCalled
    /\ ret' = [ret EXCEPT !.base =
                  Returns(mkvmerge_options_json(arg.num, arg.ext, arg.output, <<>>))]
    /\ UNCHANGED <<invocation, arg>>

NextBuilder == CallBuilder \/ CallBuilderNoAudio

SpecBuilder == InitBuilder /\ [][NextBuilder]_vars

\* Most pieces a path text passed to fix_path is put together from.
MaxPieces == 4

\* Path texts: any sequence of the pieces the Windows fix_path looks for
\* (the extended-length prefix, the UNC marker) and of a backslash, a
\* question mark and a letter.
PathPieces == {UNC_PREFIX, <<"U", "N", "C">>, <<"\\">>, <<"?">>, <<"a">>}
PathTexts == {Flatten(ps) : ps \in SeqsUpTo(PathPieces, MaxPieces)}

\* The fix_path the build has: cfg(windows) or cfg(not(windows)).
fix_path_on(windows, p) == IF windows THEN fix_path_windows(p) ELSE fix_path(p)

\* A caller about to call fix_path(path) on one of the two builds.
InitFixPath ==
    /\ NoInvocation
    /\ arg \in [windows : BOOLEAN, path : PathTexts]
    /\ ret = [once |-> NotCalled, twice |-> NotCalled]

\* fix_path(p).
CallFixPath ==
    /\ ret.once = NotCalled
    /\ ret' = [ret EXCEPT !.once = Returns(fix_path_on(arg.windows, arg.path))]
    /\ UNCHANGED <<invocation, arg>>

\* fix_path of what fix_path returned.
CallFixPathAgain ==
    /\ ret.once # NotCalled
    /\ ret.twice = NotCalled
    /\ ret' = [ret EXCEPT !.twice = Returns(fix_path_on(arg.windows, ret.once[1]))]
    /\ UNCHANGED <<invocation, arg>>

NextFixPath == CallFixPath \/ CallFixPathAgain

SpecFixPath == InitFixPath /\ [][NextFixPath]_vars

\* ----------------------------------------------------------------- claims

Returned(i) == pc[i] = "done"
CountMatches(i) == Len(segment_paths[i]) = expected_segments[i]
AllExist(i) == \A k \in 1..Len(segment_paths[i]) : segment_paths[i][k] \in existing
Validated(i) == CountMatches(i) /\ AllExist(i)
MuxerPath(i) == concat[i] = "ffmpeg"

\* The index of the first segment that does not exist.
FirstMissing(i) ==
    CHOOSE k \in 1..Len(segment_paths[i]) :
        /\ segment_paths[i][k] \notin existing
        /\ \A j \in 1..(k - 1) : segment_paths[i][j] \in existing

\* Neither temporary artifact has been written, truncated or removed since
\* the invocation began.
ArtifactsUntouched(i) ==
    /\ fileList \in {NoFile, StaleList}
    /\ optionsFile[i] = NoFile
    /\ \A k \in 1..Len(fsLog[i]) : fsLog[i][k].op = "exists"

\* C1: with len(segment_paths) # expected_segments, whatever the backend,
\* the invocation goes from the count check straight to its return, the
\* error it returns is the count-mismatch message with the expected number
\* first and the found number second, and it has made no filesystem
\* operation (not even an existence probe) and launched no process.
CountMismatchFailsFirst ==
    \A i \in procs :
        ~CountMatches(i) =>
            /\ pc[i] \in {"count", "done"}
            /\ fsLog[i] = <<>>
            /\ spawned[i] = <<>>
            /\ child[i].state = "none"
            /\ ArtifactsUntouched(i)
            /\ Returned(i) =>
                  /\ result[i].tag = "Concatenation"
                  /\ result[i].fmt = "Mismatch in segment count. Expected: {}, Found: {}"
                  /\ result[i].args = <<Dec(expected_segments[i]),
                                        Dec(Len(segment_paths[i]))>>

\* C1 witness: a returned invocation of the remux backend whose two
\* segments were expected to be one.
CountMismatchReturned ==
    \E i \in procs :
        /\ Returned(i)
        /\ Len(segment_paths[i]) = 2
        /\ expected_segments[i] = 1
        /\ concat[i] = "mkvmerge"
        /\ result[i].tag = "Concatenation"

\* C2: with a matching count and a missing segment, the invocation never
\* gets past the existence loop; it probes the segments in order up to the
\* first missing one, returns the missing-file error naming that path, and
\* writes no artifact and launches no process.
MissingSegmentFailsInOrder ==
    \A i \in procs :
        (CountMatches(i) /\ ~AllExist(i)) =>
            /\ pc[i] \in {"count", "exists", "done"}
            /\ spawned[i] = <<>>
            /\ child[i].state = "none"
            /\ ArtifactsUntouched(i)
            /\ Returned(i) =>
                  /\ result[i].tag = "Concatenation"
                  /\ result[i].fmt = "Segment file not found: {:?}"
                  /\ result[i].args =
                        <<DebugStr(segment_paths[i][FirstMissing(i)])>>
                  /\ fsLog[i] = [k \in 1..FirstMissing(i) |->
                                    FsOp("exists", segment_paths[i][k])]

\* C2 witness: a returned invocation with two different missing segments.
MissingSegmentReturned ==
    \E i \in procs :
        /\ Returned(i)
        /\ CountMatches(i)
        /\ Len(segment_paths[i]) = 2
        /\ segment_paths[i][1] # segment_paths[i][2]
        /\ segment_paths[i][1] \notin existing
        /\ segment_paths[i][2] \notin existing
        /\ result[i].fmt = "Segment file not found: {:?}"

\* The launch of invocation i, once it has launched an external tool.
Launched(i) == spawned[i] # <<>>
TheLaunch(i) == spawned[i][1]

\* The tool the invocation launched has exited with status zero.
ToolExitedZero(i) == Launched(i) /\ child[i].state = "exited" /\ child[i].code = 0

\* C3: on every backend value other than "ffmpeg", a validated invocation
\* whose mkvmerge was launched and exited with status zero returns Ok,
\* whether or not <cwd>/file_list.txt exists.
RemuxSuccessReturnsOk ==
    \A i \in procs :
        (~MuxerPath(i) /\ Validated(i) /\ ToolExitedZero(i) /\ Returned(i)) =>
            result[i] = OkResult

\* The fixed umbrella error, spelled out.
IsUmbrella(r) ==
    /\ r.tag = "Concatenation"
    /\ r.fmt = "Failed to concatenate videos and copy streams"
    /\ r.args = <<>>

\* C4: every error a validated invocation returns is the umbrella
\* concatenation-failed error with its fixed message and no cause text; no
\* other error kind is returned after validation.
PostValidationErrorIsUmbrella ==
    \A i \in procs :
        (Validated(i) /\ Returned(i) /\ result[i].tag \notin {"Ok", "Panic"}) =>
            IsUmbrella(result[i])

\* C5: selection is total and two-way. An invocation is on the muxer steps
\* only with the selector "ffmpeg" and on the remux steps only with another
\* selector; what it launches is ffmpeg exactly when the selector is
\* "ffmpeg" and mkvmerge otherwise; it launches at most one tool; and the
\* dispatch step always enters one of the two backends, never returning an
\* error of its own.
SelectionState ==
    \A i \in procs :
        /\ pc[i] \in {"write_list", "ffmpeg", "ffmpeg_wait"} => concat[i] = "ffmpeg"
        /\ pc[i] \in {"audio", "output", "assert", "options", "mkvmerge", "mkv_wait"}
              => concat[i] # "ffmpeg"
        /\ Len(spawned[i]) <= 1
        /\ \A k \in 1..Len(spawned[i]) :
              /\ spawned[i][k].program \in {"ffmpeg", "mkvmerge"}
              /\ spawned[i][k].program = "ffmpeg" <=> concat[i] = "ffmpeg"
              /\ spawned[i][k].program = "mkvmerge" <=> concat[i] # "ffmpeg"
SelectionStep ==
    \A i \in procs :
        (pc[i] = "dispatch" /\ pc'[i] # "dispatch") =>
            /\ pc'[i] = (IF concat[i] = "ffmpeg" THEN "write_list" ELSE "audio")
            /\ result'[i] = Pending
BackendSelectionTotal == []SelectionState /\ [][SelectionStep]_vars

\* C5 witness: the case variant "FFmpeg" has launched mkvmerge.
CaseVariantLaunchedRemux ==
    \E i \in procs :
        /\ concat[i] = "FFmpeg"
        /\ Launched(i)
        /\ TheLaunch(i).program = "mkvmerge"

\* The files the launched tool is told to read as chunks, in order,
\* resolved as the tool resolves them: the file-list's paths as written, the
\* options text's chunk entries under the tool's working directory.
ChunksHanded(l) ==
    IF l.program = "ffmpeg"
    THEN FileListPaths(l.seen.content)
    ELSE LET entries == OptionChunks(l.seen.content)
         IN  [k \in 1..Len(entries) |-> PathJoin(l.cwd, entries[k])]

\* C6: on both backends, the chunk files handed to the launched tool are
\* the caller's segments, each one once and in the order supplied.
ChunksAreCallersSegments ==
    \A i \in procs :
        Launched(i) => ChunksHanded(TheLaunch(i)) = segment_paths[i]

RECURSIVE ListingOf(_)
\* The text `file '<p1>'\n ... file '<pN>'\n` for the paths p1..pN.
ListingOf(paths) ==
    IF paths = <<>> THEN <<>>
    ELSE <<"f", "i", "l", "e", " ", "'">> \o Head(paths) \o <<"'">> \o <<"\n">>
         \o ListingOf(Tail(paths))

\* C7: when ffmpeg is launched for N validated segments, file_list.txt
\* exists and its whole content is the N lines file '<path of segment i>'
\* followed by a line feed, in input order; nothing of an earlier content
\* is left.
FileListAtLaunch ==
    \A i \in procs :
        (MuxerPath(i) /\ Launched(i)) =>
            /\ Validated(i)
            /\ TheLaunch(i).program = "ffmpeg"
            /\ TheLaunch(i).seen.exists
            /\ TheLaunch(i).seen.content = ListingOf(segment_paths[i])
            /\ Len(SplitLines(TheLaunch(i).seen.content)) = Len(segment_paths[i])

\* C7 witness: ffmpeg has just been launched for two different segments,
\* after the two probes and the write.
FfmpegLaunchedForTwo ==
    \E i \in procs :
        /\ MuxerPath(i)
        /\ Launched(i)
        /\ Len(segment_paths[i]) = 2
        /\ segment_paths[i][1] # segment_paths[i][2]
        /\ fsLog[i][3] = FsOp("write", temp_file_list)
        /\ child[i].state = "started"
        /\ fileList.exists

\* The muxer backend step (ffmpeg_mux) has returned, so the file-list was
\* written in full before.
MuxReturned(i) == MuxerPath(i) /\ status[i].tag # "None"

IsFailure(r) == r.tag \notin {"Ok", "Pending"}

\* C8: on the muxer path, file_list.txt does not exist when the invocation
\* returns success, and it exists, with the content written, when the
\* invocation returns a failure after having written it; the removal is
\* attempted only after a successful backend step.
FileListCleanupOnSuccessOnly ==
    \A i \in procs :
        (MuxerPath(i) /\ Returned(i)) =>
            /\ result[i] = OkResult => ~fileList.exists
            /\ (IsFailure(result[i]) /\ MuxReturned(i)) =>
                  /\ fileList.exists
                  /\ fileList.content = ListingOf(segment_paths[i])
            /\ (\E k \in 1..Len(fsLog[i]) : fsLog[i][k].op = "remove") =>
                  status[i] = StatusOk

\* C8 witness: a muxer invocation returned a failure after writing the
\* file-list, which is still there.
FileListLeftAfterFailure ==
    \E i \in procs :
        /\ MuxerPath(i)
        /\ Returned(i)
        /\ IsFailure(result[i])
        /\ MuxReturned(i)
        /\ Len(segment_paths[i]) = 2
        /\ fileList.exists

\* The invocation created its temporary artifact: the file-list in full on
\* the muxer path, options.json (created, perhaps partly written) on the
\* remux path.
CreatedFileList(i) == MuxReturned(i)
CreatedOptions(i) == optionsFile[i].exists

\* C9: every temporary artifact an invocation created is gone when the
\* invocation returns, on success and on failure.
ArtifactsGoneAtReturn ==
    \A i \in procs :
        Returned(i) =>
            /\ CreatedFileList(i) => ~fileList.exists
            /\ ~CreatedOptions(i)

\* C9 as amended: of the artifacts an invocation created, only the
\* file-list of a muxer-path invocation that returns success is gone at the
\* return. The file-list of a muxer-path invocation that returns a failure
\* and the options.json of a remux-path invocation are still there when the
\* invocation returns (options.json with the options text written in full
\* whenever mkvmerge was launched), and nothing removes options.json at
\* any step.
ArtifactsAtReturn ==
    \A i \in procs :
        /\ (Returned(i) /\ CreatedFileList(i)) =>
              (fileList.exists <=> result[i] # OkResult)
        /\ (\E k \in 1..Len(fsLog[i]) :
                fsLog[i][k] = FsOp("create", options_path(i))
                /\ status[i] # StatusErr("Fs", "create failed"))
              => optionsFile[i].exists
        /\ (~MuxerPath(i) /\ Launched(i)) =>
              /\ optionsFile[i].exists
              /\ optionsFile[i] = TheLaunch(i).seen
              /\ optionsFile[i].content # <<>>

\* C9 witness: a remux invocation has returned after mkvmerge failed and
\* its options.json is still in the temporary directory.
OptionsLeftAfterReturn ==
    \E i \in procs :
        /\ ~MuxerPath(i)
        /\ Returned(i)
        /\ Launched(i)
        /\ child[i].code = 1
        /\ IsUmbrella(result[i])
        /\ optionsFile[i].exists

\* C10: on the muxer path, once ffmpeg has been launched the invocation
\* returns Ok and has removed the file-list whatever status ffmpeg exited
\* with; the backend step fails, and the invocation with it, exactly when
\* ffmpeg could not be launched.
FfmpegExitStatusIgnored ==
    \A i \in procs :
        /\ (MuxerPath(i) /\ Launched(i) /\ pc[i] \in {"status", "cleanup", "done"}) =>
              /\ child[i].state = "exited"
              /\ status[i] = StatusOk
              /\ Returned(i) => (result[i] = OkResult /\ ~fileList.exists)
        /\ (MuxReturned(i) /\ ~Launched(i)) =>
              /\ status[i].tag = "Err"
              /\ status[i].kind = "Io"
              /\ Returned(i) => IsUmbrella(result[i])

\* C10 witness: ffmpeg exited with a non-zero status and the invocation
\* returned Ok.
FfmpegFailedYetOk ==
    \E i \in procs :
        /\ MuxerPath(i)
        /\ Launched(i)
        /\ child[i].state = "exited"
        /\ child[i].code # 0
        /\ Returned(i)
        /\ result[i] = OkResult

\* The options text mkvmerge was launched on, as the elements it reads.
LaunchElements(i) == JsonElements(TheLaunch(i).seen.content)

\* C11: when mkvmerge is launched, the options text in options.json has an
\* audio element exactly when <temp_dir>/audio.mkv existed at the
\* invocation: with it, the element right after the output path is the
\* absolute audio path and the group-open token follows; without it, the
\* group-open token comes right after the output path and no element names
\* the audio file. mkvmerge runs in <temp_dir>/encoded with the single
\* argument @../options.json.
AudioElementAndLaunch ==
    \A i \in procs :
        (~MuxerPath(i) /\ Launched(i)) =>
            LET els == LaunchElements(i)
                audio == temp_dir(i) \o <<"/", "a", "u", "d", "i", "o", ".", "m", "k", "v">>
            IN  /\ TheLaunch(i).program = "mkvmerge"
                /\ TheLaunch(i).cwd = temp_dir(i) \o <<"/", "e", "n", "c", "o", "d", "e", "d">>
                /\ TheLaunch(i).args = << <<"@", ".", ".", "/", "o", "p", "t", "i", "o",
                                            "n", "s", ".", "j", "s", "o", "n">> >>
                /\ TheLaunch(i).seen = optionsFile[i]
                /\ Len(els) >= 4
                /\ els[1] = <<"-", "o">>
                /\ els[2] = Cwd \o <<"/">> \o output_file
                /\ IF audioExists[i]
                   THEN els[3] = audio /\ els[4] = <<"[">>
                   ELSE els[3] = <<"[">>
                /\ Cardinality({k \in 1..Len(els) : els[k] = audio})
                      = (IF audioExists[i] THEN 1 ELSE 0)

\* C11 witness: mkvmerge has been launched by an invocation whose temporary
\* directory holds audio.mkv, on an options text of two chunks.
RemuxLaunchedWithAudio ==
    \E i \in procs :
        /\ ~MuxerPath(i)
        /\ Launched(i)
        /\ audioExists[i]
        /\ expected_segments[i] = 2
        /\ Len(LaunchElements(i)) = 7

\* The name encoded_chunk_{k}.{e}.
ChunkName(k, e) ==
    <<"e", "n", "c", "o", "d", "e", "d", "_", "c", "h", "u", "n", "k", "_">>
    \o Dec(k) \o <<".">> \o e

\* C12: for a count n >= 1 and any extension e, with or without an audio
\* argument, the elements of the text mkvmerge_options_json returns are the
\* output flag, the output path, the audio path if given, the group-open
\* token, then exactly the n entries encoded_chunk_0.e .. encoded_chunk_{n-1}.e
\* in increasing order, then the group-close token.
ChunkEntriesInOrder ==
    (ret.out # NotCalled /\ arg.num >= 1) =>
        LET els == JsonElements(ret.out[1])
            o == GroupOpen(els)
            c == GroupClose(els)
        IN  /\ o = (IF arg.audio = <<>> THEN 3 ELSE 4)
            /\ c = o + arg.num + 1
            /\ SubSeq(els, o + 1, c - 1) = [k \in 1..arg.num |-> ChunkName(k - 1, arg.ext)]

\* C13: the elements of the text returned with an audio path are those of
\* the text returned for the same count, extension and output without one,
\* with the audio path inserted as the third element, right after the
\* output path; the text itself is the other text with `, "<audio>"`
\* inserted at that place.
AudioIsOneInsertedElement ==
    (ret.out # NotCalled /\ ret.base # NotCalled
       /\ arg.audio # <<>>) =>
        LET with == JsonElements(ret.out[1])
            without == JsonElements(ret.base[1])
            at == 7 + Len(DebugStr(arg.output))
        IN  /\ Len(without) >= 2
            /\ without[2] = arg.output
            /\ with = SubSeq(without, 1, 2) \o <<arg.audio[1]>>
                        \o SubSeq(without, 3, Len(without))
            /\ ret.out[1] = SubSeq(ret.base[1], 1, at)
                              \o <<",", " ">> \o DebugStr(arg.audio[1])
                              \o SubSeq(ret.base[1], at + 1, Len(ret.base[1]))

\* C13 witness: both calls have returned, for eleven chunks and an audio
\* path that needs escaping.
BuilderCalledBothWays ==
    /\ ret.out # NotCalled
    /\ ret.base # NotCalled
    /\ arg.num = 11
    /\ arg.audio # <<>>
    /\ \E k \in 1..Len(arg.audio[1]) : arg.audio[1][k] = "\""
    /\ Len(JsonElements(ret.out[1])) = Len(JsonElements(ret.base[1])) + 1

ExtendedPrefix == <<"\\", "\\", "?", "\\">>
PrefixTail == <<"\\", "?", "\\">>

\* A path text in which the extended-length prefix is nested: after the
\* prefix comes the prefix again, or after the prefix and the UNC marker
\* comes \?\.
NestedPrefix(p) ==
    /\ IsPrefix(ExtendedPrefix, p)
    /\ \/ IsPrefix(ExtendedPrefix \o ExtendedPrefix, p)
       \/ IsPrefix(ExtendedPrefix \o <<"U", "N", "C">> \o PrefixTail, p)

ZeroOnRemux(i) ==
    /\ ~MuxerPath(i)
    /\ segment_paths[i] = <<>>
    /\ expected_segments[i] = 0

\* Nothing of the options file yet: not built or created, nothing launched.
NoOptionsYet(i) ==
    /\ pc[i] \notin {"options", "mkvmerge", "mkv_wait", "cleanup"}
    /\ optionsFile[i] = NoFile
    /\ spawned[i] = <<>>
    /\ child[i].state = "none"
    /\ \A k \in 1..Len(fsLog[i]) : fsLog[i][k].op # "create"

\* C15: concatenate called on the remux path with an empty segment set and
\* expected count 0 never builds the options text, creates options.json or
\* launches mkvmerge, and it ends in the assertion failure: not in a typed
\* error, not in success.
ZeroCountEndsInAssertion ==
    \A i \in procs :
        ZeroOnRemux(i) =>
            /\ NoOptionsYet(i)
            /\ Returned(i) => result[i].tag = "Panic"

\* C15 as amended: such an invocation never builds the options text,
\* creates options.json or launches mkvmerge, and never returns success;
\* the assertion follows the two path resolutions, so it ends in the
\* assertion failure exactly when both resolutions succeeded, and in the
\* umbrella error (for the path error) when one of them failed.
ZeroCountRejectedAfterPaths ==
    \A i \in procs :
        ZeroOnRemux(i) =>
            /\ NoOptionsYet(i)
            /\ Returned(i) =>
                  /\ result[i] # OkResult
                  /\ IF status[i].tag = "None"
                     THEN /\ result[i].tag = "Panic"
                          /\ result[i].fmt = "assertion failed: num_tasks != 0"
                          /\ fsLog[i] = <<FsOp("exists", temp_dir(i) \o
                                <<"/", "a", "u", "d", "i", "o", ".", "m", "k", "v">>)>>
                     ELSE /\ status[i].tag = "Err"
                          /\ status[i].kind = "Path"
                          /\ IsUmbrella(result[i])

\* C15 witness: the assertion has failed for an empty segment set, after
\* the audio probe.
ZeroCountPanicked ==
    \E i \in procs :
        /\ ZeroOnRemux(i)
        /\ Returned(i)
        /\ result[i].tag = "Panic"
        /\ Len(fsLog[i]) = 1

\* The step of the per-invocation state machine a statement belongs to:
\* 1 Validating, 2 BuildingInputs, 3 Invoking, 4 Success or Failed decided,
\* 5 Cleanup, 6 returned.
Phase(p) ==
    CASE p \in {"count", "exists"} -> 1
      [] p \in {"dispatch", "write_list", "audio", "output", "assert", "options"} -> 2
      [] p \in {"ffmpeg", "ffmpeg_wait", "mkvmerge", "mkv_wait"} -> 3
      [] p = "status" -> 4
      [] p = "cleanup" -> 5
      [] p = "done" -> 6
      [] OTHER -> 0

\* The artifact of invocation i's backend is on disk, written in full.
ArtifactComplete(i) ==
    IF MuxerPath(i)
    THEN fileList = File(ListingOf(segment_paths[i]))
    ELSE optionsFile[i] =
             File(mkvmerge_options_json(expected_segments[i], <<"m", "k", "v">>,
                                        Cwd \o <<"/">> \o output_file, audio_file[i]))

StepOrderState ==
    \A i \in procs :
        /\ Len(spawned[i]) <= 1
        /\ Phase(pc[i]) >= 2 /\ ~Returned(i) => Validated(i)
        /\ Launched(i) => Validated(i)
        /\ pc[i] = "cleanup" => status[i] = StatusOk
        /\ (status[i].tag = "Err" \/ IsFailure(result[i])) => pc[i] \in {"status", "done"}
StepOrderStep ==
    \A i \in procs :
        /\ Phase(pc'[i]) >= Phase(pc[i])
        /\ spawned'[i] # spawned[i] =>
              /\ spawned[i] = <<>>
              /\ Phase(pc[i]) = 3
              /\ Validated(i)
              /\ ArtifactComplete(i)
              /\ spawned'[i][1].seen = (IF MuxerPath(i) THEN fileList ELSE optionsFile[i])
              /\ status[i] = NoStatus
              /\ result[i] = Pending
        /\ fileList' # fileList => Phase(pc[i]) \in {2, 5}
        /\ Returned(i) =>
              /\ pc'[i] = pc[i]
              /\ result'[i] = result[i]
              /\ spawned'[i] = spawned[i]
              /\ fsLog'[i] = fsLog[i]

\* C16: an invocation moves only forward through Validating,
\* BuildingInputs, Invoking, the decision Success or Failed, and Cleanup,
\* which it enters only after a successful backend step. Its tool is
\* launched once at most, only from the Invoking step of a validated
\* invocation whose artifact is on disk in full; after a failure (a backend
\* error or a returned error) it only returns, and once returned it does
\* nothing more: no launch, no filesystem operation.
StepsInOrder == []StepOrderState /\ [][StepOrderStep]_vars

\* C16 witness: a validated remux invocation has launched mkvmerge once,
\* mkvmerge has failed and the invocation has returned the failure.
LaunchedOnceThenFailed ==
    \E i \in procs :
        /\ ~MuxerPath(i)
        /\ Validated(i)
        /\ Len(spawned[i]) = 1
        /\ child[i].state = "exited"
        /\ child[i].code = 2
        /\ Returned(i)
        /\ IsFailure(result[i])
        /\ Len(segment_paths[i]) = 2

\* C17: no step of an invocation on the remux path changes
\* <cwd>/file_list.txt: it is not created, rewritten or deleted, so a
\* file-list left by an earlier run is still there, with its content, when
\* the invocation has returned.
RemuxLeavesFileList ==
    [][\A i \in procs : ~MuxerPath(i) => fileList' = fileList]_vars

\* C18: of two muxer invocations that run at the same time with their own
\* temp_dir and segments, each ffmpeg process, when it reads file_list.txt,
\* finds a file-list naming exactly the segments of its own invocation, and
\* each invocation whose backend step succeeded returns Ok.
ConcurrentMuxersIsolated ==
    \A i \in procs :
        /\ child[i].state = "running" =>
              /\ child[i].input.exists
              /\ FileListPaths(child[i].input.content) = segment_paths[i]
        /\ (Returned(i) /\ status[i] = StatusOk) => result[i] = OkResult

\* An invocation that has not returned and cannot take a step of its own.
Blocked(i) == ~Returned(i) /\ ~ENABLED Step(i)

\* C19: if the launched process exits in the end, every invocation
\* returns in the end, with a success or a failure. The only place an
\* invocation can be blocked is the wait for its child process while that
\* process has not exited, and an invocation whose validation fails
\* launches nothing and is never at a wait.
EveryInvocationReturns ==
    /\ <>(\A i \in procs : Returned(i) /\ result[i] # Pending)
    /\ [](\A i \in procs :
            /\ Blocked(i) => /\ pc[i] \in {"ffmpeg_wait", "mkv_wait"}
                             /\ child[i].state \in {"started", "running"}
            /\ ~Validated(i) => /\ pc[i] \notin {"ffmpeg_wait", "mkv_wait"}
                                /\ child[i].state = "none"
                                /\ ~Blocked(i))

\* C19 witness: an invocation has returned after waiting for mkvmerge,
\* which read its options file and exited with status zero.
ReturnedAfterWait ==
    \E i \in procs :
        /\ ~MuxerPath(i)
        /\ Launched(i)
        /\ child[i].state = "exited"
        /\ child[i].input.exists
        /\ child[i].code = 0
        /\ Returned(i)
        /\ result[i] = OkResult

====
